---- MODULE Spec2Model ----
\* A model of vocab_dashboard_streamlit.py: the Streamlit script that loads a
\* vocabulary-metrics CSV, filters it by curriculum and CEFR level, freezes the
\* ceiling of the Top-N / range controls, and ranks and slices the filtered
\* table once per metric tab.
\*
\* Streamlit runs the whole script top to bottom after every user event, with
\* st.session_state surviving from run to run.  One action of the model is one
\* user event (its on_change callback included) followed by the whole run.
\*
\* Non-ASCII literals of the source are romanised: the column
\* "cihui_dengji_by_kebiao" is the curriculum-level column, "Range" is the
\* second choice of the mode radio, "DESC" / "ASC" are the two choices of the
\* sort-order radio.
EXTENDS Integers, Sequences, FiniteSets, TLC

VARIABLES
    uploaded,                \* st.file_uploader's value: None or the CSV file
    kb_levels,               \* st.session_state.kb_levels (a list)
    cefr_levels,             \* st.session_state.cefr_levels (a list)
    top_n,                   \* st.session_state.top_n
    sort_order,              \* st.session_state.sort_order
    mode,                    \* st.session_state.mode
    range_from,              \* st.session_state.range_from
    range_to,                \* st.session_state.range_to
    rows_max,                \* st.session_state._rows_max
    last_filter_signature,   \* st.session_state._last_filter_signature
    status,                  \* where the last run of the script ended
    df,                      \* the script's df of the last run
    df_f,                    \* the script's df_f of the last run
    tabs                     \* per metric tab: base, show_df, note_slice

vars == <<uploaded, kb_levels, cefr_levels, top_n, sort_order, mode, range_from,
          range_to, rows_max, last_filter_signature, status, df, df_f, tabs>>

session == <<kb_levels, cefr_levels, top_n, sort_order, mode, range_from,
             range_to, rows_max, last_filter_signature>>

-----------------------------------------------------------------------------
\* Bounds of the model.

\* longest table of the exhaustively enumerated inputs
MaxRows == 3
\* length of the generated long table of the session specification
MaxGen == 12
\* longest sorted list the slicing specification draws
MaxTotal == 20
\* longest of the short tables the slicing specification draws every range for
MaxShort == 5
\* the user types or drags the values 1..MaxPick, or the control's maximum
MaxPick == 1

-----------------------------------------------------------------------------
\* Python and pandas values.

Max(a, b) == IF a >= b THEN a ELSE b
Min(a, b) == IF a <= b THEN a ELSE b

Range(s) == {s[i] : i \in DOMAIN s}

\* A str: `core` has no surrounding whitespace, `lead` and `trail` count the
\* whitespace characters around it.
T(s) == [lead |-> 0, core |-> s, trail |-> 0]
Padded(l, s, t) == [lead |-> l, core |-> s, trail |-> t]

\* str.strip()
py_strip(t) == T(t.core)

\* None, for the uploader and for _last_filter_signature
None == [some |-> FALSE]
NoSignature == <<>>

\* The strings pandas.read_csv reads as a missing value (a subset of its
\* default na_values); the cell is compared as written, untrimmed.
NA_VALUES == {"", "NA", "NaN", "nan", "null", "NULL", "N/A", "n/a"}

\* One parsed cell of pd.read_csv: NaN, or the cell's text.
read_cell(t) == [na |-> (t.lead = 0 /\ t.trail = 0 /\ t.core \in NA_VALUES), s |-> t]

\* Series.astype(str) of one value: NaN becomes the text "nan".
astype_str(x) == IF x.na THEN T("nan") ELSE x.s

\* The numeric literals the model's cells use.
NumLit ==
    [s \in {"0", "1", "2", "3", "4", "5", "6", "7", "10", "20"} |->
        CASE s = "0" -> 0 [] s = "1" -> 1 [] s = "2" -> 2 [] s = "3" -> 3
          [] s = "4" -> 4 [] s = "5" -> 5 [] s = "6" -> 6 [] s = "7" -> 7
          [] s = "10" -> 10 [] s = "20" -> 20]

\* pd.to_numeric(errors="coerce") of one value: the number, or NaN.
to_numeric(x) ==
    IF ~x.na /\ x.s.core \in DOMAIN NumLit
    THEN [nan |-> FALSE, v |-> NumLit[x.s.core]]
    ELSE [nan |-> TRUE, v |-> 0]

\* Series.fillna(d) of one value
fillna(n, d) == IF n.nan THEN d ELSE n.v

\* coerce_num, element-wise
coerce_num(x) == fillna(to_numeric(x), 0)

-----------------------------------------------------------------------------
\* Program constants.

METRICS ==
    <<"tf_passage", "tf_item", "tf_total", "df", "num_passages", "coverage",
      "idf", "tfidf", "dispersion", "general_score", "passage_frac",
      "passage_priority_score", "passage_df">>

KB_COL == "cihui_dengji_by_kebiao"

WORD_ALIASES == <<"Word", "WORD", "lemma", "Lemma">>

kb_opts == <<0, 2, 3>>
cefr_opts == <<0, 1, 2, 3, 4, 5, 6>>

DEFAULTS ==
    [kb_levels |-> <<0, 2, 3>>,
     cefr_levels |-> <<0, 1, 2, 3, 4, 5, 6>>,
     top_n |-> 50,
     sort_order |-> "DESC",
     mode |-> "Top N",
     range_from |-> 1,
     range_to |-> 100]

\* st.session_state.setdefault("_rows_max", 300)
ROWS_MAX_DEFAULT == 300

\* the floor of max(10, current_rows)
ROWS_FLOOR == 10

-----------------------------------------------------------------------------
\* load_and_prepare.
\*
\* A CSV file is [some |-> TRUE, header |-> <<name, ...>>, rows |-> <<cells, ...>>]
\* with every row a sequence of cells as long as the header.  A DataFrame is
\* [columns |-> set of names, rows |-> sequence of rows]; a row holds its index
\* label idx and the values of the columns the script reads: word, pos, kb (the
\* curriculum-level column), CEFR_numeric, CEFR_level, and m, the values of the
\* metric columns in the order of METRICS.  The value of a column that is not
\* in `columns` is never read.

\* df.columns = [c.strip() for c in df.columns]
StrippedColumns(file) == [j \in DOMAIN file.header |-> py_strip(file.header[j]).core]

\* the parsed cell of row r in the column `name` of cols
Cell(file, cols, r, name) ==
    read_cell(file.rows[r][CHOOSE k \in DOMAIN cols : cols[k] = name])

\* a loader that knows no alias of the word column
FirstAlias_none(cols) == ""

\* the first alias of the word column that is a column, or "" when none is
FirstAlias(cols) ==
    LET hits == {k \in DOMAIN WORD_ALIASES : WORD_ALIASES[k] \in cols}
    IN  IF hits = {} THEN ""
        ELSE WORD_ALIASES[CHOOSE k \in hits : \A h \in hits : k <= h]

\* the test of df = df[df["word"] != ""]
KeepWord(word) == word # T("")

EmptyDF == [columns |-> {}, rows |-> <<>>]

load_and_prepare(file) ==
    LET cols == StrippedColumns(file)
        cols0 == Range(cols)
        alias == FirstAlias(cols0)
        wordSrc == IF "word" \in cols0 THEN "word" ELSE alias
        columns == cols0 \cup {"word", "CEFR_numeric", "CEFR_level"} \cup Range(METRICS)
        Metric(r, k) ==
            IF METRICS[k] \in cols0 THEN coerce_num(Cell(file, cols, r, METRICS[k])) ELSE 0
        Row(r) ==
            [idx |-> r - 1,
             word |-> py_strip(astype_str(Cell(file, cols, r, wordSrc))),
             pos |-> IF "pos" \in cols0 THEN Cell(file, cols, r, "pos") ELSE read_cell(T("")),
             kb |-> fillna(to_numeric(Cell(file, cols, r, KB_COL)), 0),
             CEFR_numeric |->
                 IF "CEFR_numeric" \in cols0
                 THEN fillna(to_numeric(Cell(file, cols, r, "CEFR_numeric")), 0)
                 ELSE 0,
             CEFR_level |->
                 IF "CEFR_level" \in cols0
                 THEN astype_str(Cell(file, cols, r, "CEFR_level"))
                 ELSE T(""),
             m |-> <<Metric(r, 1), Metric(r, 2), Metric(r, 3), Metric(r, 4),
                     Metric(r, 5), Metric(r, 6), Metric(r, 7), Metric(r, 8),
                     Metric(r, 9), Metric(r, 10), Metric(r, 11), Metric(r, 12),
                     Metric(r, 13)>>]
        Keep(row) == KeepWord(row.word)
    IN  IF wordSrc = "" THEN [ok |-> FALSE, error |-> "missing word", df |-> EmptyDF]
        ELSE IF KB_COL \notin cols0
        THEN [ok |-> FALSE, error |-> "missing kb", df |-> EmptyDF]
        ELSE [ok |-> TRUE, error |-> "",
              df |-> [columns |-> columns,
                      rows |-> SelectSeq([r \in DOMAIN file.rows |-> Row(r)], Keep)]]

-----------------------------------------------------------------------------
\* The filter and the signature.

\* Series.isin(list) of one value
isin(v, list) == v \in Range(list)

\* a filter that keeps a row when either of its levels is selected
apply_filter_either(d, kb, cefr) ==
    LET Pass(row) == isin(row.kb, kb) \/ isin(row.CEFR_numeric, cefr)
    IN  [columns |-> d.columns, rows |-> SelectSeq(d.rows, Pass)]

\* df[df[KB_COL].isin(kb) & df["CEFR_numeric"].isin(cefr)].copy()
apply_filter(d, kb, cefr) ==
    LET Pass(row) == isin(row.kb, kb) /\ isin(row.CEFR_numeric, cefr)
    IN  [columns |-> d.columns, rows |-> SelectSeq(d.rows, Pass)]

Reverse(s) == [i \in 1..Len(s) |-> s[Len(s) + 1 - i]]

\* A stable merge of two sequences sorted by their field k: on a tie the
\* element of the left sequence goes first.
RECURSIVE Merge(_, _)
Merge(a, b) ==
    IF a = <<>> THEN b
    ELSE IF b = <<>> THEN a
    ELSE IF Head(a).k <= Head(b).k
         THEN <<Head(a)>> \o Merge(Tail(a), b)
         ELSE <<Head(b)>> \o Merge(a, Tail(b))

\* kind="mergesort": a stable ascending sort by the field k
RECURSIVE MergeSort(_)
MergeSort(s) ==
    IF Len(s) <= 1 THEN s
    ELSE LET h == Len(s) \div 2
         IN  Merge(MergeSort(SubSeq(s, 1, h)), MergeSort(SubSeq(s, h + 1, Len(s))))

\* sorted(list) of a list of integers
sorted(list) ==
    LET s == MergeSort([i \in DOMAIN list |-> [k |-> list[i], x |-> list[i]]])
    IN  [i \in DOMAIN s |-> s[i].x]

\* sig = (tuple(sorted(kb_levels)), tuple(sorted(cefr_levels)))
Signature(kb, cefr) == <<sorted(kb), sorted(cefr)>>

-----------------------------------------------------------------------------
\* build_base and slice_df.

BaseCols(metric) == {"word", "pos", KB_COL, "CEFR_numeric", "CEFR_level", metric}

\* df_f[cols] raises KeyError when a column of cols is missing
build_base_raises(d, metric) == ~(BaseCols(metric) \subseteq d.columns)

\* a descending sort that reverses the ascending one
sort_values_reversed(rows, ascending) ==
    LET keyed == [i \in DOMAIN rows |-> [k |-> rows[i].v, x |-> rows[i]]]
        s == IF ascending THEN MergeSort(keyed) ELSE Reverse(MergeSort(keyed))
    IN  [i \in DOMAIN s |-> s[i].x]

\* DataFrame.sort_values(by, ascending, kind="mergesort") on the column v:
\* pandas sorts a descending column by reversing it, sorting it ascending and
\* stably, and reversing the result.
sort_values(rows, ascending) ==
    LET keyed == [i \in DOMAIN rows |-> [k |-> rows[i].v, x |-> rows[i]]]
        s == IF ascending THEN MergeSort(keyed)
             ELSE Reverse(MergeSort(Reverse(keyed)))
    IN  [i \in DOMAIN s |-> s[i].x]

\* build_base: the rows of df_f[cols], v being the value of the metric column
build_base(d, metric, ascending) ==
    LET k == CHOOSE j \in DOMAIN METRICS : METRICS[j] = metric
        Project(row) ==
            [idx |-> row.idx, word |-> row.word, pos |-> row.pos, kb |-> row.kb,
             CEFR_numeric |-> row.CEFR_numeric, CEFR_level |-> row.CEFR_level,
             v |-> row.m[k]]
    IN  sort_values([i \in DOMAIN d.rows |-> Project(d.rows[i])], ascending)

\* DataFrame.head(N) for N >= 0
head(rows, N) == SubSeq(rows, 1, Min(N, Len(rows)))

\* DataFrame.iloc[lo:hi] for 0 <= lo and 0 <= hi
iloc(rows, lo, hi) == SubSeq(rows, lo + 1, Min(hi, Len(rows)))

\* a slice_df whose note reports the requested N
slice_df_requested_N(base, md, N0, from, to) ==
    IF md = "Top N"
    THEN LET N == Min(N0, Len(base))
         IN  [show_df |-> head(base, N), note_slice |-> <<"Mode=Top N, N=", N0>>]
    ELSE LET total == Len(base)
             a0 == Max(1, Min(from, total))
             b0 == Max(1, Min(to, total))
             a == IF a0 > b0 THEN b0 ELSE a0
             b == IF a0 > b0 THEN a0 ELSE b0
         IN  [show_df |-> iloc(base, a - 1, b),
              note_slice |-> <<"Mode=Range, From=, To=", a, b>>]

\* a slice_df that clamps the range to the frozen ceiling
slice_df_frozen_total(base, md, N0, from, to) ==
    IF md = "Top N"
    THEN LET N == Min(N0, Len(base))
         IN  [show_df |-> head(base, N), note_slice |-> <<"Mode=Top N, N=", N>>]
    ELSE LET total == rows_max
             a0 == Max(1, Min(from, total))
             b0 == Max(1, Min(to, total))
             a == IF a0 > b0 THEN b0 ELSE a0
             b == IF a0 > b0 THEN a0 ELSE b0
         IN  [show_df |-> iloc(base, a - 1, b),
              note_slice |-> <<"Mode=Range, From=, To=", a, b>>]

\* a slice_df that does not swap a reversed range
slice_df_no_swap(base, md, N0, from, to) ==
    IF md = "Top N"
    THEN LET N == Min(N0, Len(base))
         IN  [show_df |-> head(base, N), note_slice |-> <<"Mode=Top N, N=", N>>]
    ELSE LET total == Len(base)
             a == Max(1, Min(from, total))
             b == Max(1, Min(to, total))
         IN  [show_df |-> iloc(base, a - 1, b),
              note_slice |-> <<"Mode=Range, From=, To=", a, b>>]

\* slice_df: the selection and its note; the note f"Mode=Top N, N={N}" is the
\* tuple of its literal and its number, f"Mode=Range, From={a}, To={b}" that of
\* its literal and its two numbers.
slice_df(base, md, N0, from, to) ==
    IF md = "Top N"
    THEN LET N == Min(N0, Len(base))
         IN  [show_df |-> head(base, N), note_slice |-> <<"Mode=Top N, N=", N>>]
    ELSE LET total == Len(base)
             a0 == Max(1, Min(from, total))
             b0 == Max(1, Min(to, total))
             a == IF a0 > b0 THEN b0 ELSE a0
             b == IF a0 > b0 THEN a0 ELSE b0
         IN  [show_df |-> iloc(base, a - 1, b),
              note_slice |-> <<"Mode=Range, From=, To=", a, b>>]

\* the body of the loop over the metric tabs
Tab(d, metric, so, md, N0, from, to) ==
    LET base == build_base(d, metric, so = "ASC")
        sl == slice_df(base, md, N0, from, to)
    IN  [base |-> base, show_df |-> sl.show_df, note_slice |-> sl.note_slice]

NoTabs == <<>>

-----------------------------------------------------------------------------
\* One run of the script, top to bottom.
\*
\* up is the uploader's value; kbSel, cefrSel, md and so are what the two
\* multiselects and the two radios return if the run reaches them; N0, from and
\* to are top_n, range_from and range_to as the event's callback left them.

\* st.stop(), or an exception that ends the run
Stop(st) ==
    /\ status' = st
    /\ df' = EmptyDF
    /\ df_f' = EmptyDF
    /\ tabs' = NoTabs

\* st.number_input raises when its value argument exceeds max_value: in range
\* mode the arguments are value=range_from or range_to, max_value=dynamic_max.
number_input_raises(md, from, to, dynamic_max) ==
    md = "Range" /\ (from > dynamic_max \/ to > dynamic_max)

\* a freeze block that takes the row count on every run
FreezeEveryRun(sig, current_rows) ==
    [rows_max |-> Max(ROWS_FLOOR, current_rows), sig |-> sig]

\* a freeze block without the floor
FreezeNoFloor(sig, current_rows) ==
    IF last_filter_signature # sig
    THEN [rows_max |-> current_rows, sig |-> sig]
    ELSE [rows_max |-> rows_max, sig |-> last_filter_signature]

\* the freeze block: the new (_rows_max, _last_filter_signature)
Freeze(sig, current_rows) ==
    IF last_filter_signature # sig
    THEN [rows_max |-> Max(ROWS_FLOOR, current_rows), sig |-> sig]
    ELSE [rows_max |-> rows_max, sig |-> last_filter_signature]

Run(up, kbSel, cefrSel, md, so, N0, from, to) ==
    /\ uploaded' = up
    /\ top_n' = N0
    /\ range_from' = from
    /\ range_to' = to
    /\ IF ~up.some
       THEN /\ Stop("no_file")
            /\ UNCHANGED <<kb_levels, cefr_levels, mode, sort_order,
                           rows_max, last_filter_signature>>
       ELSE
       LET ld == load_and_prepare(up) IN
       IF ~ld.ok
       THEN /\ Stop("load_error")
            /\ UNCHANGED <<kb_levels, cefr_levels, mode, sort_order,
                           rows_max, last_filter_signature>>
       ELSE
       LET f == apply_filter(ld.df, kbSel, cefrSel)
           current_rows == Len(f.rows)
           fr == Freeze(Signature(kbSel, cefrSel), current_rows)
           dynamic_max == Max(ROWS_FLOOR, fr.rows_max)
       IN
       /\ kb_levels' = kbSel
       /\ cefr_levels' = cefrSel
       /\ rows_max' = fr.rows_max
       /\ last_filter_signature' = fr.sig
       /\ mode' = md
       /\ IF number_input_raises(md, from, to, dynamic_max)
          THEN /\ Stop("widget_error")
               /\ UNCHANGED sort_order
          ELSE
          /\ sort_order' = so
          /\ IF build_base_raises(f, METRICS[1])
             THEN Stop("key_error")
             ELSE /\ status' = "done"
                  /\ df' = ld.df
                  /\ df_f' = f
                  /\ tabs' = [k \in DOMAIN METRICS |->
                                  Tab(df_f', METRICS[k], so, md, N0, from, to)]

\* Which widgets the last run rendered.
Loaded == status \in {"done", "key_error", "widget_error"}
ReachedSortOrder == status \in {"done", "key_error"}

DynamicMax == Max(ROWS_FLOOR, rows_max)

-----------------------------------------------------------------------------
\* The inputs the model draws.

STD_HEADER ==
    <<T("word"), T("pos"), T(KB_COL), T("CEFR_numeric"), T("CEFR_level"), T("tf_total")>>

\* the cell of the generated row i in the column `col`
GenCell(i, col) ==
    CASE col \in {"word", "Word", "WORD", "lemma", "Lemma"} ->
            T(IF i % 3 = 1 THEN "apple" ELSE IF i % 3 = 2 THEN "bear" ELSE "cat")
      [] col = "pos" -> T("n")
      [] col = KB_COL -> T(IF i = 1 THEN "0" ELSE IF i = 2 THEN "2" ELSE "3")
      [] col = "CEFR_numeric" -> T(IF i % 2 = 1 THEN "1" ELSE "2")
      [] col = "CEFR_level" -> T(IF i % 2 = 1 THEN "A1" ELSE "A2")
      [] col = "tf_total" -> T(IF i % 3 = 0 THEN "5" ELSE "10")
      [] OTHER -> T("")

File(header, rows) == [some |-> TRUE, header |-> header, rows |-> rows]

GenFile(header, n) ==
    File(header, [i \in 1..n |-> [j \in DOMAIN header |-> GenCell(i, header[j].core)]])

\* the files of the session specification
SessionFiles ==
    { GenFile(STD_HEADER, 3),
      GenFile(STD_HEADER, MaxGen),
      \* no pos column
      GenFile(<<T("word"), T(KB_COL), T("tf_total")>>, 3),
      \* no curriculum-level column
      GenFile(<<T("word"), T("pos"), T("CEFR_numeric")>>, 3) }

KbSelections == {<<0, 2, 3>>, <<2, 3>>, <<3, 2>>}
CefrSelections == {<<0, 1, 2, 3, 4, 5, 6>>, <<1>>}

\* what the user sets a numeric control with maximum max to
Picks(max) == {v \in 1..MaxPick : v <= max} \cup {max}

-----------------------------------------------------------------------------
\* The session.

Init ==
    /\ uploaded = None
    /\ kb_levels = DEFAULTS.kb_levels
    /\ cefr_levels = DEFAULTS.cefr_levels
    /\ top_n = DEFAULTS.top_n
    /\ sort_order = DEFAULTS.sort_order
    /\ mode = DEFAULTS.mode
    /\ range_from = DEFAULTS.range_from
    /\ range_to = DEFAULTS.range_to
    /\ rows_max = ROWS_MAX_DEFAULT
    /\ last_filter_signature = NoSignature
    /\ status = "no_file"
    /\ df = EmptyDF
    /\ df_f = EmptyDF
    /\ tabs = NoTabs

\* a multiselect that comes back with every option selected
multiselect_all(stored, opts) == opts

\* What a multiselect returns when the user has not touched it: its default
\* argument, the stored list if that is a subset of the options, else all options.
multiselect_default(stored, opts) ==
    IF Range(stored) \subseteq Range(opts) THEN stored ELSE opts

KbWidget == multiselect_default(kb_levels, kb_opts)
CefrWidget == multiselect_default(cefr_levels, cefr_opts)

\* the user uploads a file, or replaces the uploaded one
Upload ==
    \E f \in SessionFiles :
        /\ f # uploaded
        /\ Run(f, KbWidget, CefrWidget, mode, sort_order, top_n, range_from, range_to)

\* the user removes the uploaded file
ClearUpload ==
    /\ uploaded.some
    /\ Run(None, KbWidget, CefrWidget, mode, sort_order, top_n, range_from, range_to)

\* the curriculum-level multiselect
SelectKb ==
    /\ Loaded
    /\ \E sel \in KbSelections :
        /\ sel # kb_levels
        /\ Run(uploaded, sel, CefrWidget, mode, sort_order, top_n, range_from, range_to)

\* the CEFR multiselect
SelectCefr ==
    /\ Loaded
    /\ \E sel \in CefrSelections :
        /\ sel # cefr_levels
        /\ Run(uploaded, KbWidget, sel, mode, sort_order, top_n, range_from, range_to)

\* the mode radio
SetMode ==
    /\ Loaded
    /\ \E md \in {"Top N", "Range"} :
        /\ md # mode
        /\ Run(uploaded, KbWidget, CefrWidget, md, sort_order, top_n, range_from, range_to)

\* the sort-order radio
SetSortOrder ==
    /\ ReachedSortOrder
    /\ \E so \in {"DESC", "ASC"} :
        /\ so # sort_order
        /\ Run(uploaded, KbWidget, CefrWidget, mode, so, top_n, range_from, range_to)

\* _sync_top_n_from_slider
sync_top_n_from_slider(v) == v

\* _sync_top_n_from_number
sync_top_n_from_number(v) == Max(1, Min(v, rows_max))

\* _sync_range_from_slider
sync_range_from_slider(a, b) == <<Min(a, b), Max(a, b)>>

\* _sync_range_from_numbers
sync_range_from_numbers(a0, b0) ==
    LET a1 == Max(1, a0)
        b1 == Max(1, b0)
        a == Min(a1, b1)
        b == Max(a1, b1)
    IN  <<Min(a, rows_max), Min(b, rows_max)>>

\* the Top-N slider, 1..dynamic_max
TopNSlider ==
    /\ Loaded
    /\ mode = "Top N"
    /\ \E v \in Picks(DynamicMax) :
        Run(uploaded, KbWidget, CefrWidget, mode, sort_order,
            sync_top_n_from_slider(v), range_from, range_to)

\* the Top-N number box, 1..dynamic_max, and its button
TopNNumber ==
    /\ Loaded
    /\ mode = "Top N"
    /\ \E v \in Picks(DynamicMax) :
        Run(uploaded, KbWidget, CefrWidget, mode, sort_order,
            sync_top_n_from_number(v), range_from, range_to)

\* the range slider, 1..max(dynamic_max, 2)
RangeSlider ==
    /\ Loaded
    /\ mode = "Range"
    /\ \E a, b \in Picks(Max(DynamicMax, 2)) :
        LET ab == sync_range_from_slider(a, b)
        IN  Run(uploaded, KbWidget, CefrWidget, mode, sort_order, top_n, ab[1], ab[2])

\* the two range number boxes, 1..dynamic_max, and their button
RangeNumbers ==
    /\ ReachedSortOrder
    /\ mode = "Range"
    /\ \E a, b \in Picks(DynamicMax) :
        LET ab == sync_range_from_numbers(a, b)
        IN  Run(uploaded, KbWidget, CefrWidget, mode, sort_order, top_n, ab[1], ab[2])

\* any other event: the script runs again with nothing changed
Rerun ==
    Run(uploaded, KbWidget, CefrWidget, mode, sort_order, top_n, range_from, range_to)

Next ==
    \/ Upload
    \/ ClearUpload
    \/ SelectKb
    \/ SelectCefr
    \/ SetMode
    \/ SetSortOrder
    \/ TopNSlider
    \/ TopNNumber
    \/ RangeSlider
    \/ RangeNumbers
    \/ Rerun

Spec == Init /\ [][Next]_vars

-----------------------------------------------------------------------------
\* One run on drawn inputs: the uploaded file and the session state the run
\* starts from are drawn, and the only step is the run of the script.

\* all sequences over S of length at most n
SeqsUpTo(S, n) == UNION {[1..k -> S] : k \in 0..n}

\* the session state of a first run, with the drawn selection, mode, order,
\* top_n and range
Drawn(file, kb, cefr, md, so, N0, from, to) ==
    /\ uploaded = file
    /\ kb_levels = kb
    /\ cefr_levels = cefr
    /\ top_n = N0
    /\ sort_order = so
    /\ mode = md
    /\ range_from = from
    /\ range_to = to
    /\ status = "queued"
    /\ df = EmptyDF
    /\ df_f = EmptyDF
    /\ tabs = NoTabs

FirstRun ==
    /\ rows_max = ROWS_MAX_DEFAULT
    /\ last_filter_signature = NoSignature

\* Loading: tables whose word cells are a word, a padded word, whitespace or blank.
WordCells == {T("apple"), Padded(1, "bear", 1), Padded(1, "", 0), T("")}

\* the standard header, and one with a padded alias of the word column and
\* neither CEFR nor metric columns
LOAD_HEADERS == {STD_HEADER, <<Padded(1, "Lemma", 1), T("pos"), T(KB_COL)>>}

WordLike == {"word"} \cup Range(WORD_ALIASES)

\* the file with the header h whose word cells are ws
LoadFile(h, ws) ==
    File(h, [i \in DOMAIN ws |->
                [j \in DOMAIN h |->
                    IF h[j].core \in WordLike THEN ws[i] ELSE GenCell(i, h[j].core)]])

LoadFiles == {LoadFile(h, ws) : h \in LOAD_HEADERS, ws \in SeqsUpTo(WordCells, MaxRows)}

InitLoad ==
    /\ \E f \in LoadFiles :
          Drawn(f, DEFAULTS.kb_levels, DEFAULTS.cefr_levels, DEFAULTS.mode,
                DEFAULTS.sort_order, DEFAULTS.top_n, DEFAULTS.range_from,
                DEFAULTS.range_to)
    /\ FirstRun

SpecLoad == InitLoad /\ [][Rerun]_vars

\* Filtering: tables whose level cells vary, under every selection drawn.
LevelCells == {<<T(k), T(c)>> : k \in {"2", "3", "x"}, c \in {"1", "6"}}

FilterFile(ls) ==
    File(STD_HEADER,
         [i \in DOMAIN ls |->
             <<GenCell(i, "word"), GenCell(i, "pos"), ls[i][1], ls[i][2],
               GenCell(i, "CEFR_level"), GenCell(i, "tf_total")>>])

FilterFiles == {FilterFile(ls) : ls \in SeqsUpTo(LevelCells, MaxRows)}

FilterKbSelections ==
    {<<>>, <<0>>, <<2>>, <<3>>, <<0, 2>>, <<3, 0>>, <<3, 2>>, <<0, 2, 3>>}
FilterCefrSelections == {<<>>, <<6>>, <<0, 1, 2, 3, 4, 5, 6>>}

InitFilter ==
    /\ \E f \in FilterFiles, kb \in FilterKbSelections, cefr \in FilterCefrSelections :
          Drawn(f, kb, cefr, DEFAULTS.mode, DEFAULTS.sort_order, DEFAULTS.top_n,
                DEFAULTS.range_from, DEFAULTS.range_to)
    /\ FirstRun

SpecFilter == InitFilter /\ [][Rerun]_vars

\* Ranking: tables whose curriculum level and tf_total cells vary; the CEFR
\* cell follows the curriculum level and the word follows the row number.
RankCells == {<<T(k), T(v)>> : k \in {"0", "2", "3"}, v \in {"5", "10"}}

RankWord(i) == T(IF i = 1 THEN "apple" ELSE IF i = 2 THEN "bear"
                 ELSE IF i = 3 THEN "cat" ELSE "dog")

RankFile(cs) ==
    File(STD_HEADER,
         [i \in DOMAIN cs |->
             <<RankWord(i), GenCell(i, "pos"), cs[i][1],
               T(IF cs[i][1].core = "3" THEN "2" ELSE IF cs[i][1].core = "2" THEN "1" ELSE "0"),
               GenCell(i, "CEFR_level"), cs[i][2]>>])

RankFiles == {RankFile(cs) : cs \in SeqsUpTo(RankCells, MaxRows)}

\* apple (level 3, CEFR 2, tf_total 10), bear (0, 0, 5), cat (2, 1, 10)
ExampleFile == RankFile(<< <<T("3"), T("10")>>, <<T("0"), T("5")>>, <<T("2"), T("10")>> >>)

InitRank ==
    /\ \E f \in RankFiles, kb \in {<<0, 2, 3>>, <<2, 3>>}, so \in {"DESC", "ASC"} :
          Drawn(f, kb, DEFAULTS.cefr_levels, DEFAULTS.mode, so, 2,
                DEFAULTS.range_from, DEFAULTS.range_to)
    /\ FirstRun

SpecRank == InitRank /\ [][Rerun]_vars

\* Slicing: generated tables of every length up to MaxTotal, ranked and sliced
\* in Top-N mode under a drawn top_n and in range mode under a drawn range.
\* The run starts from the session state a table of MaxTotal rows leaves
\* behind, or under a selection that no row passes; one table is header-only
\* and has no pos column.
NO_POS_HEADER == <<T("word"), T(KB_COL), T("tf_total")>>

ShortFiles == {GenFile(STD_HEADER, n) : n \in 0..MaxShort} \cup {GenFile(NO_POS_HEADER, 0)}
SliceFiles == ShortFiles \cup {GenFile(STD_HEADER, n) : n \in 0..MaxTotal}

TopNDraws == (1..(MaxTotal + 1)) \cup {DEFAULTS.top_n, 1000}

InitSlice ==
    /\ \/ \E f \in SliceFiles, N0 \in TopNDraws, kb \in {DEFAULTS.kb_levels, <<>>} :
             Drawn(f, kb, DEFAULTS.cefr_levels, "Top N", DEFAULTS.sort_order, N0,
                   DEFAULTS.range_from, DEFAULTS.range_to)
       \/ \E f \in ShortFiles, kb \in {DEFAULTS.kb_levels, <<>>} :
             \E from \in 1..(MaxShort + 2),
                to \in (1..(MaxShort + 2)) \cup {DEFAULTS.range_to} :
                Drawn(f, kb, DEFAULTS.cefr_levels, "Range",
                      DEFAULTS.sort_order, DEFAULTS.top_n, from, to)
       \/ \E from \in 1..(MaxTotal + 1), to \in 1..(MaxTotal + 1) :
             Drawn(GenFile(STD_HEADER, MaxTotal), DEFAULTS.kb_levels,
                   DEFAULTS.cefr_levels, "Range", DEFAULTS.sort_order,
                   DEFAULTS.top_n, from, to)
    /\ rows_max = Max(ROWS_FLOOR, MaxTotal)
    /\ last_filter_signature = Signature(DEFAULTS.kb_levels, DEFAULTS.cefr_levels)

SpecSlice == InitSlice /\ [][Rerun]_vars

\* Schema: tables whose header has the word column under one of several names
\* or not at all, the curriculum-level column or not, and any of the CEFR and
\* tf_total columns; the run starts a session, or follows runs that narrowed
\* the selection and froze the ceiling.
SchemaWordNames ==
    {<<>>, <<T("word")>>, <<Padded(1, "word", 0)>>, <<T("Word")>>, <<T("WORD")>>,
     <<T("lemma")>>, <<Padded(1, "Lemma", 1)>>, <<T("LEMMA")>>, <<T("words")>>}

SchemaKbNames == {<<>>, <<T(KB_COL)>>, <<Padded(0, KB_COL, 1)>>}

SchemaOptionalNames ==
    {<<>>, <<T("CEFR_numeric")>>, <<T("CEFR_level")>>, <<T("tf_total")>>,
     <<T("CEFR_numeric"), T("CEFR_level")>>,
     <<T("CEFR_numeric"), T("CEFR_level"), T("tf_total")>>}

SchemaFiles ==
    {GenFile(w \o <<T("pos")>> \o k \o o, n) :
        w \in SchemaWordNames, k \in SchemaKbNames, o \in SchemaOptionalNames,
        n \in {0, MaxRows}}

InitSchema ==
    /\ \E f \in SchemaFiles, kb \in {DEFAULTS.kb_levels, <<2, 3>>} :
          Drawn(f, kb, DEFAULTS.cefr_levels, DEFAULTS.mode, DEFAULTS.sort_order,
                DEFAULTS.top_n, DEFAULTS.range_from, DEFAULTS.range_to)
    /\ \/ /\ kb_levels = DEFAULTS.kb_levels
          /\ FirstRun
       \/ /\ rows_max \in {ROWS_FLOOR, MaxGen}
          /\ last_filter_signature = Signature(kb_levels, cefr_levels)

SpecSchema == InitSchema /\ [][Rerun]_vars

-----------------------------------------------------------------------------
\* The freeze of rows_max.

\* the rows of the uploaded table that pass the filter selection, counted on
\* the loaded table
PassingRows(file, kb, cefr) ==
    LET d == load_and_prepare(file).df
    IN  {i \in DOMAIN d.rows :
            d.rows[i].kb \in Range(kb) /\ d.rows[i].CEFR_numeric \in Range(cefr)}

\* C1: a run whose filter signature equals the stored one leaves rows_max as it
\* is, whatever else the run changes; rows_max changes only in a run whose
\* signature differs from the stored one; rows_max is never below 10.
C1_FrozenWhileSignatureSame ==
    /\ rows_max >= 10
    /\ [][/\ Signature(kb_levels', cefr_levels') = last_filter_signature
              => rows_max' = rows_max
          /\ rows_max' >= 10]_vars

\* C1 witness: a completed run under the stored signature whose row count was
\* recomputed to a value the frozen rows_max does not follow.
C1_Witness ==
    /\ status = "done"
    /\ last_filter_signature = Signature(kb_levels, cefr_levels)
    /\ Len(df_f.rows) > 10
    /\ rows_max # Len(df_f.rows)

\* C2: a run that reaches the freeze block with a signature other than the
\* stored one sets rows_max to max(10, n), n the number of rows that pass the
\* filter, and stores the signature, also when the run ends before any sort.
C2_FreezeOnSignatureChange ==
    [][(/\ status' \in {"done", "key_error", "widget_error"}
        /\ Signature(kb_levels', cefr_levels') # last_filter_signature)
       => /\ rows_max' =
                Max(10, Cardinality(PassingRows(uploaded', kb_levels', cefr_levels')))
          /\ last_filter_signature' = Signature(kb_levels', cefr_levels')]_vars

\* C2 witness: rows_max holds a filtered count above the floor and below the
\* length of the table.
C2_Witness ==
    /\ status = "done"
    /\ rows_max = Len(df_f.rows)
    /\ rows_max > 10
    /\ Len(df_f.rows) < Len(df.rows)

-----------------------------------------------------------------------------
\* The life of the filter selection.

AllLevels ==
    /\ kb_levels = <<0, 2, 3>>
    /\ cefr_levels = <<0, 1, 2, 3, 4, 5, 6>>

\* C9 as stated: the selection starts as all levels, and a run on a newly
\* uploaded file resets it to all levels.
C9_ResetOnUpload ==
    /\ AllLevels
    /\ [][(uploaded'.some /\ uploaded' # uploaded) => AllLevels']_vars

\* C9 amended: the selection starts as all levels and a step that changes the
\* uploaded file, the mode, the sort order, top_n or the range leaves it as it is.
C9_SelectionPersists ==
    /\ AllLevels
    /\ [][(\/ uploaded' # uploaded
           \/ mode' # mode
           \/ sort_order' # sort_order
           \/ top_n' # top_n
           \/ <<range_from, range_to>>' # <<range_from, range_to>>)
          => UNCHANGED <<kb_levels, cefr_levels>>]_vars

\* C9 witness: a file was loaded under a selection that is not all levels, the
\* selection having been made on an earlier table.
C9_Witness ==
    /\ status = "done"
    /\ ~AllLevels
    /\ Len(df.rows) = MaxGen
    /\ rows_max = 10

-----------------------------------------------------------------------------
\* Loading and filtering.

\* the j-th smallest element of a set of integers
Nth(P, j) == CHOOSE p \in P : Cardinality({q \in P : q <= p}) = j

\* the elements of s at the positions P, in the order of s
Pick(s, P) == [j \in 1..Cardinality(P) |-> s[Nth(P, j)]]

\* the text of the word cell of row i of the uploaded file, as written
WordText(i) ==
    LET h == uploaded.header
        j == CHOOSE k \in DOMAIN h : h[k].core \in WordLike
    IN  uploaded.rows[i][j]

\* the rows of the uploaded file whose word trims to the empty string
EmptyWordRows == {i \in DOMAIN uploaded.rows : WordText(i).core = ""}

\* C10 as stated: loading drops exactly the rows whose word trims to the empty
\* string, blank cells included, and keeps the others in order.
C10_DropsEmptyWords ==
    status = "done" =>
        /\ Len(df.rows) = Len(uploaded.rows) - Cardinality(EmptyWordRows)
        /\ \A i \in DOMAIN df.rows : df.rows[i].word # T("")
        /\ [i \in DOMAIN df.rows |-> df.rows[i].idx + 1]
              = Pick([i \in DOMAIN uploaded.rows |-> i],
                     DOMAIN uploaded.rows \ EmptyWordRows)

\* C3: a record is in the filtered view iff its curriculum level and its CEFR
\* level are both selected; the view keeps the table's order and multiplicity.
C3_FilterCorrect ==
    status = "done" =>
        LET P == {i \in DOMAIN df.rows :
                     /\ \E x \in Range(kb_levels) : x = df.rows[i].kb
                     /\ \E x \in Range(cefr_levels) : x = df.rows[i].CEFR_numeric}
        IN  df_f.rows = Pick(df.rows, P)

\* C3 witness: a view that keeps two rows of three, the dropped one between them.
C3_Witness ==
    /\ status = "done"
    /\ Len(df.rows) = 3
    /\ [i \in DOMAIN df_f.rows |-> df_f.rows[i].idx] = <<0, 2>>
    /\ df.rows[2].kb \in Range(kb_levels)
    /\ df.rows[2].CEFR_numeric \notin Range(cefr_levels)

-----------------------------------------------------------------------------
\* Ranking and slicing.

Ascending == sort_order = "ASC"

\* the row of the filtered view with the index label x, with the value of
\* metric k as its v
ViewRow(x, k) ==
    LET r == CHOOSE r \in Range(df_f.rows) : r.idx = x
    IN  [idx |-> r.idx, word |-> r.word, pos |-> r.pos, kb |-> r.kb,
         CEFR_numeric |-> r.CEFR_numeric, CEFR_level |-> r.CEFR_level, v |-> r.m[k]]

\* the position in the filtered view of the row with the index label x
ViewPos(x) == CHOOSE i \in DOMAIN df_f.rows : df_f.rows[i].idx = x

\* b holds every row of the filtered view once, ordered by v in the chosen
\* direction, rows of equal v in the order of the filtered view
RankedView(b, k) ==
    /\ Len(b) = Len(df_f.rows)
    /\ \A i \in DOMAIN b :
          /\ \E r \in Range(df_f.rows) : r.idx = b[i].idx
          /\ b[i] = ViewRow(b[i].idx, k)
    /\ \A i, j \in DOMAIN b :
          i < j =>
            /\ IF Ascending THEN b[i].v <= b[j].v ELSE b[i].v >= b[j].v
            /\ b[i].v = b[j].v => ViewPos(b[i].idx) < ViewPos(b[j].idx)

Words(rows) == [i \in DOMAIN rows |-> rows[i].word.core]

\* the example: the three-row table, levels 2 and 3 selected, tf_total (the
\* third metric), descending, Top-N with N = 2
IsExample ==
    /\ uploaded = ExampleFile
    /\ kb_levels = <<2, 3>>
    /\ sort_order = "DESC"
    /\ mode = "Top N"
    /\ top_n = 2

\* C4: every tab's base is the filtered view ordered by the tab's metric in the
\* chosen direction, ties in the order of the filtered view, ascending or
\* descending; on the example the tf_total selection is apple, cat.
C4_StableRanking ==
    status = "done" =>
        /\ \A k \in DOMAIN METRICS : RankedView(tabs[k].base, k)
        /\ IsExample => Words(tabs[3].show_df) = <<"apple", "cat">>

\* C4 witness: the example has run, and its tf_total tab shows apple, cat.
C4_Witness ==
    /\ status = "done"
    /\ IsExample
    /\ Words(tabs[3].show_df) = <<"apple", "cat">>
    /\ Words(tabs[3].base) = <<"apple", "cat">>
    /\ Len(df.rows) = 3

\* the rows of b at the ranks lo..hi
Ranks(b, lo, hi) == [i \in 1..(hi - lo + 1) |-> b[lo + i - 1]]

\* C5: in Top-N mode every tab shows exactly the first min(top_n, len) rows of
\* its base, and its note reports that count.
C5_TopN ==
    (status = "done" /\ mode = "Top N") =>
        \A k \in DOMAIN METRICS :
            LET b == tabs[k].base
                n == IF top_n <= Len(b) THEN top_n ELSE Len(b)
            IN  /\ tabs[k].show_df = Ranks(b, 1, n)
                /\ tabs[k].note_slice = <<"Mode=Top N, N=", n>>

\* C5 witness: N = 1000 on the longest table shows the whole table, and the
\* note reports its length.
C5_Witness ==
    /\ status = "done"
    /\ mode = "Top N"
    /\ top_n = 1000
    /\ Len(tabs[1].base) = MaxTotal
    /\ Len(tabs[1].show_df) = MaxTotal
    /\ tabs[1].note_slice[2] = MaxTotal

\* C6: in range mode on a non-empty base each bound is clamped to
\* [1, len(base)], the two are swapped if reversed, and the tab shows exactly
\* the ranks a..b, at least one row; the note reports a and b.
C6_Range ==
    (status = "done" /\ mode = "Range") =>
        \A k \in DOMAIN METRICS :
            LET b == tabs[k].base
                total == Len(b)
                Clamp(x) == IF x < 1 THEN 1 ELSE IF x > total THEN total ELSE x
                lo == IF Clamp(range_from) <= Clamp(range_to)
                      THEN Clamp(range_from) ELSE Clamp(range_to)
                hi == IF Clamp(range_from) <= Clamp(range_to)
                      THEN Clamp(range_to) ELSE Clamp(range_from)
            IN  total >= 1 =>
                  /\ tabs[k].show_df = Ranks(b, lo, hi)
                  /\ Len(tabs[k].show_df) = hi - lo + 1
                  /\ Len(tabs[k].show_df) >= 1
                  /\ tabs[k].note_slice = <<"Mode=Range, From=, To=", lo, hi>>

\* C6 witness: a range that reaches past a three-row base, under a ceiling
\* that allows it, is cut at the base's length.
C6_Witness ==
    /\ status = "done"
    /\ mode = "Range"
    /\ Len(tabs[1].base) = 3
    /\ rows_max > 3
    /\ range_from = 2
    /\ range_to = 5
    /\ Len(tabs[1].show_df) = 2
    /\ tabs[1].note_slice = <<"Mode=Range, From=, To=", 2, 3>>

Range15To5Of20 ==
    /\ status = "done"
    /\ mode = "Range"
    /\ range_from = 15
    /\ range_to = 5
    /\ Len(tabs[1].base) = 20

\* C7 as stated: the range from 15 to 5 on 20 rows shows the ranks 5..15, which
\* are 9 rows.
C7_Range15To5NineRows ==
    Range15To5Of20 =>
        \A k \in DOMAIN METRICS :
            /\ tabs[k].show_df = Ranks(tabs[k].base, 5, 15)
            /\ Len(tabs[k].show_df) = 9

\* C7 amended: the range from 15 to 5 on 20 rows shows the ranks 5..15, which
\* are 11 rows.
C7_Range15To5ElevenRows ==
    Range15To5Of20 =>
        \A k \in DOMAIN METRICS :
            /\ tabs[k].show_df = Ranks(tabs[k].base, 5, 15)
            /\ Len(tabs[k].show_df) = 11

\* C7 witness: that range has been applied to 20 rows.
C7_Witness ==
    /\ Range15To5Of20
    /\ tabs[3].show_df[1] = tabs[3].base[5]
    /\ tabs[3].show_df[11] = tabs[3].base[15]

\* a run got past the load and no row of the table passes the selection
EmptyView ==
    /\ status \in {"done", "key_error", "widget_error"}
    /\ PassingRows(uploaded, kb_levels, cefr_levels) = {}

\* C8 as stated: a run with an empty filtered view completes without an error
\* and every tab shows an empty selection, in Top-N and in range mode.
C8_EmptyViewNoError ==
    EmptyView =>
        /\ status = "done"
        /\ \A k \in DOMAIN METRICS : tabs[k].show_df = <<>>

\* C8 witness: a run in range mode with an empty view that does reach the tabs
\* and shows an empty selection.
C8_Witness ==
    /\ EmptyView
    /\ status = "done"
    /\ mode = "Range"
    /\ range_from > 1
    /\ tabs[1].show_df = <<>>

-----------------------------------------------------------------------------
\* Schema errors.

\* the column names of the uploaded file, trimmed
HeaderNames == {uploaded.header[j].core : j \in DOMAIN uploaded.header}

\* the header has neither word nor one of its aliases, or lacks the
\* curriculum-level column
SchemaBad ==
    \/ HeaderNames \cap {"word", "Word", "WORD", "lemma", "Lemma"} = {}
    \/ KB_COL \notin HeaderNames

\* C11: the load fails exactly when the trimmed header has neither word nor
\* one of its aliases or lacks the curriculum-level column, whatever CEFR and
\* metric columns it has; a failed load leaves no table, no filtered view and
\* no tabs, and leaves the selection, rows_max and last_filter_signature as
\* they were.
C11_SchemaError ==
    /\ [](status # "queued" => (status = "load_error" <=> SchemaBad))
    /\ [][status' = "load_error" =>
            /\ df' = EmptyDF
            /\ df_f' = EmptyDF
            /\ tabs' = NoTabs
            /\ kb_levels' = kb_levels
            /\ cefr_levels' = cefr_levels
            /\ rows_max' = rows_max
            /\ last_filter_signature' = last_filter_signature]_vars

\* C11 witness: a table with an alias of the word column and without the
\* curriculum-level column failed to load in a session that has not frozen
\* its ceiling yet.
C11_Witness ==
    /\ status = "load_error"
    /\ "Lemma" \in HeaderNames
    /\ "CEFR_numeric" \in HeaderNames
    /\ KB_COL \notin HeaderNames
    /\ Len(uploaded.rows) = MaxRows
    /\ rows_max = ROWS_MAX_DEFAULT
    /\ last_filter_signature = NoSignature

-----------------------------------------------------------------------------
\* The stored Top-N value and the ceiling.

\* C12 as stated: after every completed run the stored top_n lies in
\* [1, rows_max].
C12_TopNWithinCeiling ==
    status = "done" => (1 <= top_n /\ top_n <= rows_max)

\* C12 witness: a completed run in Top-N mode whose stored top_n exceeds the
\* ceiling and which shows more rows than the ceiling.
C12_Witness ==
    /\ status = "done"
    /\ mode = "Top N"
    /\ top_n > rows_max
    /\ Len(tabs[1].show_df) > rows_max

\* C13 as stated: after every completed run rows_max is max(10, number of
\* filtered rows), so it is never less than the number of rows ranked.
C13_CeilingTracksRows ==
    status = "done" =>
        /\ rows_max = Max(10, Len(df_f.rows))
        /\ \A k \in DOMAIN METRICS : Len(tabs[k].base) <= rows_max

\* C13 witness: a completed run that ranked more rows than the ceiling after
\* the table was replaced under an unchanged selection.
C13_Witness ==
    /\ status = "done"
    /\ Len(df_f.rows) = MaxGen
    /\ rows_max = ROWS_FLOOR
    /\ last_filter_signature = Signature(kb_levels, cefr_levels)

====
